---- MODULE Spec2Model ----
(***************************************************************************)
(* Model of the arbitrage engine of arbiroot-navigator.                    *)
(*                                                                         *)
(*  Spec      the session executor (ArbitrageExecutor with createSession,  *)
(*            executeTriangularArbitrage, validate*, executeTrade,         *)
(*            waitForOrderCompletion, rollbackTrades).  Every await of the *)
(*            code is a step; the exchange gateway is the environment.     *)
(*  SpecLoop  the scan loop (ArbitrageExecutor.start/stop/                 *)
(*            executeArbitrageLoop/executeArbitrage of lib/arbitrage.ts)   *)
(*            and the process shutdown of ArbirootNavigator.               *)
(*  SpecAlert the executor that reports through an AlertManager            *)
(*            (executeArbitrageLoop/executeArbitrage/                      *)
(*            waitForTradeConfirmation with lib/alert.ts).                 *)
(*  SpecDetect the opportunity detector                                    *)
(*            (findTriangularArbitrageOpportunities, findArbitragePaths,   *)
(*            findSimpleArbitrageOpportunities) applied to one snapshot.   *)
(*  SpecHook  the bot control hook (useBotControl: toggleBot, pauseBot,    *)
(*            restartBot, stopBot, scanForOpportunities) with the wallet   *)
(*            of the WalletContext.  Every callback carries the values of  *)
(*            the render that created it.                                  *)
(*                                                                         *)
(* Amounts are integers.  Ratios are in units of 1/10000 (basis points);   *)
(* the profitability comparison is scaled by 1000.                         *)
(***************************************************************************)
EXTENDS Integers, Sequences, FiniteSets, TLC

(***************************************************************************)
(* Bounds of the model.                                                    *)
(***************************************************************************)
MaxLegs == 2
MaxPolls == 2
MaxTicks == 2
\* the most price points of one snapshot
MaxPrices == 4
\* the most toggleBot calls that schedule an activation
MaxToggles == 2
\* the most fetchPrices calls of the hook
MaxScans == 2

(***************************************************************************)
(* Program constants (ratios in basis points).                             *)
(***************************************************************************)
MAX_SLIPPAGE == 50
MIN_LIQUIDITY_RATIO == 3

Undefined == "undefined"

Symbols == <<"BTC/USDT", "ETH/BTC", "ETH/USDT">>
Venues == {"binance", "kucoin"}

Min(a, b) == IF a < b THEN a ELSE b

RECURSIVE Reverse(_)
Reverse(s) == IF s = <<>> THEN <<>> ELSE Append(Reverse(Tail(s)), Head(s))

(***************************************************************************)
(* Inputs: the opportunities handed to executeTriangularArbitrage.         *)
(* exchanges is either one venue per leg or the single venue of a          *)
(* triangular opportunity; minimumRequired 0 stands for an absent field    *)
(* (opportunity.minimumRequired || 0).                                     *)
(***************************************************************************)
ExchangeLists(n) ==
  { <<"binance">>, [i \in 1..n |-> IF i % 2 = 1 THEN "binance" ELSE "kucoin"] }

Profits == {0 - 2, 0, 2}
Required == {0, 1000}

Opportunities ==
  UNION { { [path |-> SubSeq(Symbols, 1, n), exchanges |-> e, profit |-> p, minimumRequired |-> m] :
              e \in ExchangeLists(n), p \in Profits, m \in Required } : n \in 1..MaxLegs }

NoOpp == [path |-> <<>>, exchanges |-> <<>>, profit |-> 0, minimumRequired |-> 0]

\* opportunity.exchanges[index]: undefined past the end of the array
ExchangeAt(opp, i) == IF i \in 1..Len(opp.exchanges) THEN opp.exchanges[i] ELSE Undefined

(***************************************************************************)
(* Values the venues return.                                               *)
(***************************************************************************)
Books == { [bidVolume |-> b, askVolume |-> 3000, best |-> 1] : b \in {2000, 3000} }
NoBook == [bidVolume |-> 0, askVolume |-> 0, best |-> 0]
Tickers == { [bid |-> 1000, ask |-> 1002, volume |-> 100000],
             [bid |-> 1000, ask |-> 1005, volume |-> 50000],
             [bid |-> 1000, ask |-> 1008, volume |-> 40000],
             [bid |-> 1000, ask |-> 1020, volume |-> 0] }
\* a fill: the filled amount and the price paid above the limit price
Fills == { [filled |-> f, slip |-> s] : f \in {0, 1}, s \in {0, 1} }
\* the balance fetchBalance reports for a venue
Balances == {0, 2000}
OrderStatuses == {"open", "closed", "canceled", "expired"}
Gateways == {"ExchangeManager", "Declared", "DeclaredQueries"}
\* the credentials of the configured venues: getEnvVar falls back to ''
ApiKeys == {"set", "empty"}

(***************************************************************************)
(* Inputs of the opportunity detector.  A symbol BASE/QUOTE is the pair    *)
(* <<BASE, QUOTE>>: split('/') reads the two components, and the template  *)
(* `${a}/${b}` builds the pair <<a, b>>.                                   *)
(***************************************************************************)
Pairs == { <<"BTC", "USD">>, <<"ETH", "BTC">>, <<"ETH", "USD">> }
Quotes == {2, 3}
\* the cross rate ETH/BTC is quoted on one venue and at one price
PairQuotes(pair) == IF pair = <<"ETH", "BTC">> THEN {2} ELSE Quotes
PairVenues(pair) == IF pair = <<"ETH", "BTC">> THEN {"binance"} ELSE Venues
\* PriceData: the optional bid, ask and volume are never read by the detector
PricePoints ==
  { point \in [symbol : Pairs, price : Quotes, exchange : Venues] :
      /\ point.price \in PairQuotes(point.symbol)
      /\ point.exchange \in PairVenues(point.symbol) }
Snapshots == UNION { [1..n -> PricePoints] : n \in 0..MaxPrices }
\* ArbitrageParams; minProfitPercentage in tenths of a percent.  The
\* parameters of the bot hook, a higher minimum, and one venue left out
CallerParams == [minProfitPercentage |-> 5, maxPathLength |-> 3,
                 includeExchanges |-> Venues]
DetectorParams ==
  { CallerParams,
    [CallerParams EXCEPT !.minProfitPercentage = 500],
    [CallerParams EXCEPT !.includeExchanges = {"binance"}] }
\* readings of Date.now(); the first scan happens at the first of them
Times == {1, 2}
FirstTime == CHOOSE t \in Times : \A u \in Times : t <= u
NoScan == [pc |-> "idle", prices |-> <<>>,
           params |-> [minProfitPercentage |-> 5, maxPathLength |-> 3,
                       includeExchanges |-> {}],
           opportunities |-> <<>>, hops |-> {}]

\* the wallet of the WalletContext: null, connected, or connected with
\* isAuthorized set
Wallets == {"absent", "connected", "authorized"}
\* useBotControl's state after its first render; botInterval 0 is null
NoHook == [botActive |-> FALSE, botPaused |-> FALSE, isActivating |-> FALSE,
           botStatus |-> "idle", botInterval |-> 0, wallet |-> "absent",
           timeouts |-> {}, intervals |-> {}, nextTimer |-> 1,
           fetches |-> 0, tickedWhilePaused |-> FALSE]

NoOrder == [id |-> 0, side |-> "none", exchange |-> Undefined, symbol |-> "none",
            filled |-> 0, limit |-> 0, price |-> 0, cost |-> 0]

\* the session executor
VARIABLES gateway, sessions, call
\* the scan loop and the process around it
VARIABLES nav, isRunning, executionInterval, acts
\* the interval timers of the executor that the runtime holds armed
VARIABLES timers
\* the API keys the ExchangeManager constructor read from the environment
VARIABLES apiKeys
\* the alerting executor: one run of its executeArbitrageLoop
VARIABLES run
\* the opportunity detector: one scan of the bot control hook
VARIABLES det
\* the bot control hook: its React state, the wallet of the context and the
\* timers its callbacks armed
VARIABLES hook

execVars == <<gateway, sessions, call>>
loopVars == <<nav, isRunning, executionInterval, timers, acts, apiKeys>>
alertVars == <<run>>
detectVars == <<det>>
hookVars == <<hook>>
vars == <<gateway, sessions, call, nav, isRunning, executionInterval, timers, acts, apiKeys, run, det, hook>>

SessionId == "s1"

\* this.exchanges[exchange] of the gateway: defined for the configured venues only
HasVenue(exchange) == exchange \in Venues

Session == sessions[SessionId]

(***************************************************************************)
(* The exchange gateway handed to the constructor.  "ExchangeManager" is   *)
(* the class of lib/exchange.ts; "Declared" is a gateway that returns what *)
(* the interfaces of lib/types.ts declare and the executor reads           *)
(* (LiquidityInfo.isLiquid, PriceData.bid/ask, an order with id, filled    *)
(* and cost, a synchronous getExchange with fetchOrder).                   *)
(* "DeclaredQueries" answers the queries as "Declared" does and places     *)
(* orders with ExchangeManager.createOrder as written.                     *)
(* An order carries in has the properties its object has; a number it does *)
(* not have reads as undefined and stands as 0 in the record.              *)
(* A JavaScript boolean that may be absent is "true", "false" or           *)
(* "undefined".                                                            *)
(***************************************************************************)
Falsy(v) == v \in {"false", Undefined}

\* ExchangeManager.checkLiquidity: the result carries no isLiquid and the
\* amount asked for is not compared with anything
checkLiquidity(exchange, symbol, amount, book) ==
  [exchange |-> exchange, symbol |-> symbol, bidVolume |-> book.bidVolume,
   askVolume |-> book.askVolume, isLiquid |-> Undefined]

\* the declared gateway: min(bidVolume, askVolume) >= amount
DeclaredCheckLiquidity(exchange, symbol, amount, book) ==
  [exchange |-> exchange, symbol |-> symbol, bidVolume |-> book.bidVolume,
   askVolume |-> book.askVolume,
   isLiquid |-> IF Min(book.bidVolume, book.askVolume) >= amount THEN "true" ELSE "false"]

GatewayCheckLiquidity(exchange, symbol, amount, book) ==
  IF gateway = "ExchangeManager"
    THEN checkLiquidity(exchange, symbol, amount, book)
    ELSE DeclaredCheckLiquidity(exchange, symbol, amount, book)

\* ExchangeManager.fetchBalance catches every error and returns 0
FetchBalanceMayThrow == gateway # "ExchangeManager"

\* the order a declared gateway returns for createOrder: filled amount, fill
\* price and cost, besides the side, venue and symbol asked for
DeclaredOrder(id, exchange, symbol, side, limit, fill) ==
  [id |-> id, side |-> side, exchange |-> exchange, symbol |-> symbol,
   filled |-> fill.filled, limit |-> limit, price |-> limit + fill.slip,
   cost |-> fill.filled * (limit + fill.slip),
   has |-> {"id", "side", "exchange", "symbol", "filled", "price", "cost"}]

\* ExchangeManager.createOrder: the result is {side, exchange, symbol, amount,
\* price, fee}; it has no id, no filled and no cost
createOrder(exchange, symbol, side, limit, fill) ==
  [id |-> 0, side |-> side, exchange |-> exchange, symbol |-> symbol,
   filled |-> 0, limit |-> limit, price |-> limit + fill.slip, cost |-> 0,
   has |-> {"side", "exchange", "symbol", "amount", "price", "fee"}]

GatewayCreateOrder(id, exchange, symbol, side, limit, fill) ==
  IF gateway = "Declared"
    THEN DeclaredOrder(id, exchange, symbol, side, limit, fill)
    ELSE createOrder(exchange, symbol, side, limit, fill)

(***************************************************************************)
(* ArbitrageExecutor: pure helpers.                                        *)
(***************************************************************************)
createSession(opportunity) ==
  [status |-> "pending", trades |-> <<>>, profitTarget |-> opportunity.profit,
   currentProfit |-> 0, errors |-> <<>>]

hasEnoughBalance(balance, opportunity) == TRUE

determineTradeSide(symbol, session) == "buy"

calculateTradeAmount(symbol, session) == 0

RECURSIVE calculateCurrentProfit(_)
calculateCurrentProfit(trades) ==
  IF trades = <<>> THEN 0
  ELSE (IF Head(trades).side = "buy" THEN 0 - Head(trades).cost ELSE Head(trades).cost)
       + calculateCurrentProfit(Tail(trades))

isStillProfitableAlways(session, opportunity) == TRUE

\* currentProfit >= opportunity.profit * (1 - MAX_SLIPPAGE), MAX_SLIPPAGE = 0.005
\* (a trade without cost makes the sum NaN, and NaN >= x is false)
isStillProfitable(session, opportunity) ==
  /\ \A i \in 1..Len(session.trades) : "cost" \in session.trades[i].has
  /\ calculateCurrentProfit(session.trades) * 10000
       >= opportunity.profit * (10000 - MAX_SLIPPAGE)

\* estimateSlippage, in basis points
estimateSlippage(ticker) ==
  IF ticker.volume = 0 THEN MAX_SLIPPAGE
  ELSE (MAX_SLIPPAGE * (100000 - Min(100000, ticker.volume))) \div 100000

TickerSpread(ticker) == ((ticker.ask - ticker.bid) * 10000) \div ticker.bid

executionRiskBothHigh(volSum, slipSum, n) ==
  IF volSum > 100 * n /\ slipSum > MAX_SLIPPAGE * n THEN "high"
  ELSE IF volSum > 50 * n \/ 2 * slipSum > MAX_SLIPPAGE * n THEN "medium"
  ELSE "low"

\* the risk class from the sums over the n legs (the code divides by n first)
executionRisk(volSum, slipSum, n) ==
  IF volSum > 100 * n \/ slipSum > MAX_SLIPPAGE * n THEN "high"
  ELSE IF volSum > 50 * n \/ 2 * slipSum > MAX_SLIPPAGE * n THEN "medium"
  ELSE "low"

OrderOutcomeLenient(status) ==
  IF status \in {"closed", "canceled"} THEN "return"
  ELSE IF status = "expired" THEN "throw" ELSE "sleep"

\* waitForOrderCompletion: what one observed order status leads to
OrderOutcome(status) ==
  IF status = "closed" THEN "return"
  ELSE IF status \in {"canceled", "expired"} THEN "throw" ELSE "sleep"

RollbackOrderForward(trades) == trades

\* rollbackTrades iterates session.trades.reverse(), which reverses in place
RollbackOrder(trades) == Reverse(trades)

CompensatingSide(trade) == IF trade.side = "buy" THEN "sell" ELSE "buy"

NeedsRollbackOffByOne(session) == Len(session.trades) > 1

\* the catch block: if (session.trades.length > 0) await this.rollbackTrades(session)
NeedsRollback(session) == Len(session.trades) > 0

AfterCompensationStops(cl, more, ok) ==
  IF ok /\ more THEN [cl EXCEPT !.rbIdx = @ + 1]
  ELSE [cl EXCEPT !.pc = "thrown", !.cause = IF ok THEN @ ELSE "rollback"]

\* the for loop of rollbackTrades after one compensating createOrder: the try
\* and catch are inside the loop, so the next trade follows whether the call
\* succeeded or not, and the function returns after the last one
AfterCompensation(cl, more, ok) ==
  IF more THEN [cl EXCEPT !.rbIdx = @ + 1] ELSE [cl EXCEPT !.pc = "thrown"]

RollbackCatchMarks(session) == [session EXCEPT !.status = "rollback_failed"]

\* rollbackTrades' catch: the error goes to the logger only
RollbackCatch(session) == session

\* the final check the executor awaits before it marks the session completed
verifyArbitrageResult(session) == session

(***************************************************************************)
(* One call of executeTriangularArbitrage.  call.pc is the await the call  *)
(* is suspended at.  The fields lastBook .. comps record what the call has *)
(* done so far (the order books it was shown, the orders the venues        *)
(* accepted, the compensating createOrder calls it issued).                *)
(***************************************************************************)
InitCall ==
  [pc |-> "idle", opp |-> NoOpp, idx |-> 0, polls |-> 0, limit |-> 0, order |-> NoOrder,
   entryBalance |-> 0, lastBook |-> NoBook, liqVerdict |-> "none", volSum |-> 0, slipSum |-> 0,
   risk |-> "none",
   cause |-> "none", closed |-> {}, recheck |-> <<>>, recorded |-> <<>>,
   rbInvoked |-> FALSE, rbArg |-> <<>>, rbIdx |-> 0, placed |-> <<>>, comps |-> <<>>]

NoAct == [pc |-> "idle", type |-> "none", leg |-> 0, attempts |-> 0, placed |-> 0,
          cancelled |-> FALSE, comps |-> 0, outcome |-> "none"]

Activations == 1..MaxTicks

\* the alerting executor before its AlertManager is constructed
NoRun == [pc |-> "new", telegramEnabled |-> FALSE, discordEnabled |-> FALSE, leg |-> 0,
          attempts |-> 0, orders |-> 0, alerts |-> <<>>, started |-> FALSE,
          rolledBack |-> FALSE, cause |-> "none", outcome |-> "none"]

Init ==
  /\ gateway \in Gateways
  /\ sessions = [s \in {} |-> createSession(NoOpp)]
  /\ call = InitCall
  /\ nav = "constructed"
  /\ isRunning = FALSE
  /\ executionInterval = FALSE
  /\ timers = 0
  /\ acts = [a \in Activations |-> NoAct]
  /\ run = NoRun
  /\ apiKeys \in ApiKeys
  /\ det = NoScan
  /\ hook = NoHook

NLegs == Len(call.opp.path)

\* catch (error) of executeTriangularArbitrage, up to the first await of
\* rollbackTrades (the in-place reverse) or to the rethrow
Catch(cl, session, message, cause) ==
  LET failed == [session EXCEPT !.status = "failed", !.errors = Append(@, message)]
  IN IF NeedsRollback(failed)
       THEN /\ sessions' = [sessions EXCEPT ![SessionId] =
                              [failed EXCEPT !.trades = RollbackOrder(failed.trades)]]
            /\ call' = [cl EXCEPT !.pc = "rollback", !.cause = cause, !.rbInvoked = TRUE,
                                  !.rbArg = failed.trades, !.rbIdx = 1]
       ELSE /\ sessions' = [sessions EXCEPT ![SessionId] = failed]
            /\ call' = [cl EXCEPT !.pc = "thrown", !.cause = cause]

\* const session = this.createSession(opportunity)
CreateSession(opportunity) ==
  /\ call.pc = "idle"
  /\ sessions' = [s \in {SessionId} |-> createSession(opportunity)]
  /\ call' = [call EXCEPT !.pc = "created", !.opp = opportunity]
  /\ UNCHANGED <<gateway, loopVars, alertVars, detectVars, hookVars>>

\* session.status = 'executing', then the first fetchBalance is awaited
StartExecuting ==
  /\ call.pc = "created"
  /\ sessions' = [sessions EXCEPT ![SessionId].status = "executing"]
  /\ call' = [call EXCEPT !.pc = "validateBalances", !.idx = 1]
  /\ UNCHANGED <<gateway, loopVars, alertVars, detectVars, hookVars>>

\* validateBalances: one fetchBalance per entry of opportunity.exchanges
ValidateBalances ==
  /\ call.pc = "validateBalances"
  /\ \/ \E balance \in Balances :
          LET seen == IF call.idx = 1 THEN [call EXCEPT !.entryBalance = balance] ELSE call
          IN IF hasEnoughBalance(balance, call.opp)
               THEN /\ call' = IF call.idx < Len(call.opp.exchanges)
                                 THEN [seen EXCEPT !.idx = @ + 1]
                                 ELSE [seen EXCEPT !.pc = "validateLiquidity", !.idx = 1]
                    /\ UNCHANGED sessions
               ELSE Catch(seen, Session, "Saldo insuficiente", "balance")
     \/ /\ FetchBalanceMayThrow
        /\ Catch(call, Session, "fetchBalance", "balanceQuery")
  /\ UNCHANGED <<gateway, loopVars, alertVars, detectVars, hookVars>>

\* validateLiquidity: one checkLiquidity per leg, on opportunity.exchanges[index]
ValidateLiquidity ==
  /\ call.pc = "validateLiquidity"
  /\ LET exchangeId == ExchangeAt(call.opp, call.idx)
         symbol == call.opp.path[call.idx]
         amount == call.opp.minimumRequired * MIN_LIQUIDITY_RATIO
     IN \/ /\ ~HasVenue(exchangeId)
           /\ Catch(call, Session, "Sem acesso", "liquidityQuery")
        \/ /\ HasVenue(exchangeId)
           /\ Catch(call, Session, "fetchOrderBook", "liquidityQuery")
        \/ /\ HasVenue(exchangeId)
           /\ \E book \in Books :
                LET liquidity == GatewayCheckLiquidity(exchangeId, symbol, amount, book)
                    seen == [call EXCEPT !.lastBook = book]
                IN IF Falsy(liquidity.isLiquid)
                     THEN Catch([seen EXCEPT !.liqVerdict = "reject"], Session,
                                "Liquidez insuficiente", "liquidity")
                     ELSE /\ call' = IF call.idx < NLegs
                                       THEN [seen EXCEPT !.idx = @ + 1, !.liqVerdict = "pass"]
                                       ELSE [seen EXCEPT !.pc = "risk", !.idx = 1,
                                                         !.liqVerdict = "pass"]
                          /\ UNCHANGED sessions
  /\ UNCHANGED <<gateway, loopVars, alertVars, detectVars, hookVars>>

\* calculateRiskMetrics: one fetchTicker per leg, then the risk class
CalculateRiskMetrics ==
  /\ call.pc = "risk"
  /\ LET exchangeId == ExchangeAt(call.opp, call.idx)
     IN \/ Catch(call, Session, "fetchTicker", "riskQuery")
        \/ /\ HasVenue(exchangeId)
           /\ \E ticker \in Tickers :
                LET vol == call.volSum + TickerSpread(ticker)
                    slip == call.slipSum + estimateSlippage(ticker)
                IN /\ call' = IF call.idx < NLegs
                                THEN [call EXCEPT !.idx = @ + 1, !.volSum = vol, !.slipSum = slip]
                                ELSE [call EXCEPT !.pc = "classified", !.volSum = vol,
                                                  !.slipSum = slip,
                                                  !.risk = executionRisk(vol, slip, NLegs)]
                   /\ UNCHANGED sessions
  /\ UNCHANGED <<gateway, loopVars, alertVars, detectVars, hookVars>>

\* the caller resumes with the metrics: a high risk class throws
RejectHighRisk ==
  /\ call.pc = "classified"
  /\ IF call.risk = "high"
       THEN Catch(call, Session, "Risco de execucao muito alto", "risk")
       ELSE /\ call' = [call EXCEPT !.pc = "price", !.idx = 1, !.volSum = 0, !.slipSum = 0]
            /\ UNCHANGED sessions
  /\ UNCHANGED <<gateway, loopVars, alertVars, detectVars, hookVars>>

\* executeTrade up to its first await: calculateOptimalPrice (fetchOrderBook)
CalculateOptimalPrice ==
  /\ call.pc = "price"
  /\ \/ Catch(call, Session, "fetchOrderBook", "place")
     \/ /\ \E book \in Books : call' = [call EXCEPT !.pc = "create", !.limit = book.best]
        /\ UNCHANGED sessions
  /\ UNCHANGED <<gateway, loopVars, alertVars, detectVars, hookVars>>

\* executeTrade: createOrder(exchangeId, symbol, 'limit', side, amount, price)
CreateOrder ==
  /\ call.pc = "create"
  /\ LET exchangeId == ExchangeAt(call.opp, call.idx)
         symbol == call.opp.path[call.idx]
         side == determineTradeSide(symbol, Session)
         amount == calculateTradeAmount(symbol, Session)
     IN \/ Catch(call, Session, "createOrder", "place")
        \/ /\ HasVenue(exchangeId)
           /\ \E fill \in Fills :
                call' = [call EXCEPT
                           !.pc = "poll", !.polls = 0,
                           !.order = GatewayCreateOrder(call.idx, exchangeId, symbol, side,
                                                        call.limit, fill),
                           !.placed = Append(@, [leg |-> call.idx, exchange |-> exchangeId,
                                                 symbol |-> symbol, type |-> "limit",
                                                 side |-> side, amount |-> amount,
                                                 filled |-> fill.filled])]
           /\ UNCHANGED sessions
  /\ UNCHANGED <<gateway, loopVars, alertVars, detectVars, hookVars>>

\* the continuation of executeTriangularArbitrage once executeTrade returns:
\* push the result, recheck, go on to the next leg or to the final check
LegDone(cl) ==
  LET pushed == [Session EXCEPT !.trades = Append(@, cl.order)]
      ok == isStillProfitable(pushed, cl.opp)
      noted == [cl EXCEPT !.recheck = Append(@, ok), !.recorded = Append(@, cl.order),
                          !.order = NoOrder, !.polls = 0, !.limit = 0]
  IN IF ~ok
       THEN Catch(noted, pushed, "Oportunidade nao e mais lucrativa", "recheck")
       ELSE /\ sessions' = [sessions EXCEPT ![SessionId] = pushed]
            /\ call' = IF cl.idx < Len(cl.opp.path)
                         THEN [noted EXCEPT !.pc = "price", !.idx = @ + 1]
                         ELSE [noted EXCEPT !.pc = "verify"]

\* waitForOrderCompletion: one fetchOrder while the timeout has not run out
PollOrder ==
  /\ call.pc = "poll"
  /\ call.polls < MaxPolls
  /\ \/ Catch(call, Session, "fetchOrder", "confirm")
     \/ \E status \in OrderStatuses :
          CASE OrderOutcome(status) = "return" ->
                 LegDone([call EXCEPT !.closed = IF status = "closed" THEN @ \cup {call.idx} ELSE @])
            [] OrderOutcome(status) = "throw" ->
                 Catch(call, Session, "Ordem nao foi completada", "confirm")
            [] OTHER ->
                 /\ call' = [call EXCEPT !.polls = @ + 1]
                 /\ UNCHANGED sessions
  /\ UNCHANGED <<gateway, loopVars, alertVars, detectVars, hookVars>>

\* waitForOrderCompletion: the while condition fails, Timeout is thrown
PollTimeout ==
  /\ call.pc = "poll"
  /\ call.polls >= MaxPolls
  /\ Catch(call, Session, "Timeout aguardando conclusao da ordem", "timeout")
  /\ UNCHANGED <<gateway, loopVars, alertVars, detectVars, hookVars>>

\* await this.verifyArbitrageResult(session); session.status = 'completed'
Complete ==
  /\ call.pc = "verify"
  /\ sessions' = [sessions EXCEPT ![SessionId] =
                    [verifyArbitrageResult(Session) EXCEPT !.status = "completed"]]
  /\ call' = [call EXCEPT !.pc = "returned"]
  /\ UNCHANGED <<gateway, loopVars, alertVars, detectVars, hookVars>>

\* rollbackTrades: one compensating createOrder per element of the reversed
\* list; after the last one the catch block rethrows
RollbackTrade ==
  /\ call.pc = "rollback"
  /\ LET trade == Session.trades[call.rbIdx]
         order == [of |-> trade.id, exchange |-> trade.exchange, symbol |-> trade.symbol,
                   type |-> "market", side |-> CompensatingSide(trade), amount |-> trade.filled,
                   hasAmount |-> "filled" \in trade.has]
         more == call.rbIdx < Len(Session.trades)
     IN \/ /\ call' = [AfterCompensation(call, more, TRUE) EXCEPT
                          !.comps = Append(@, order @@ [ok |-> TRUE])]
           /\ UNCHANGED sessions
        \/ /\ call' = [AfterCompensation(call, more, FALSE) EXCEPT
                          !.comps = Append(@, order @@ [ok |-> FALSE])]
           /\ sessions' = [sessions EXCEPT ![SessionId] = RollbackCatch(Session)]
  /\ UNCHANGED <<gateway, loopVars, alertVars, detectVars, hookVars>>

Next ==
  \/ \E opportunity \in Opportunities : CreateSession(opportunity)
  \/ StartExecuting
  \/ ValidateBalances
  \/ ValidateLiquidity
  \/ CalculateRiskMetrics
  \/ RejectHighRisk
  \/ CalculateOptimalPrice
  \/ CreateOrder
  \/ PollOrder
  \/ PollTimeout
  \/ Complete
  \/ RollbackTrade

Spec == Init /\ [][Next]_vars

(***************************************************************************)
(* The scan loop of lib/arbitrage.ts.  acts[a] is one run of               *)
(* executeArbitrageLoop: the immediate call of start() or one callback of  *)
(* the interval timer.  nav is the process: "constructed", "running",      *)
(* "stopping" (stop() awaits the final backup), "exited" (process.exit).   *)
(***************************************************************************)
maxAttempts == 5
maxAttemptsAlerting == 10

\* the orders of one execution: buy and sell, or the three pairs of a route
OrdersOf(type) == IF type = "simple" THEN 2 ELSE 3

InFlight(a) == acts[a].pc \in {"order", "confirm", "rollback"}

\* the next run of executeArbitrageLoop begins (up to its first await)
Spawn(as) ==
  LET a == CHOOSE x \in Activations : as[x].pc = "idle" /\ \A y \in Activations : y < x => as[y].pc # "idle"
  IN [as EXCEPT ![a].pc = "findSimple"]

\* ArbirootNavigator.start with every support system starting: it reaches
\* ArbitrageExecutor.start, which runs the loop once and arms the timer
NavigatorStart ==
  /\ nav = "constructed"
  /\ ~isRunning
  /\ isRunning' = TRUE
  /\ acts' = Spawn(acts)
  /\ executionInterval' = TRUE
  /\ timers' = timers + 1
  /\ nav' = "running"
  /\ UNCHANGED <<execVars, alertVars, apiKeys, detectVars, hookVars>>

\* ArbirootNavigator.start when a support system throws: stop(), then exit(1)
NavigatorStartFails ==
  /\ nav = "constructed"
  /\ nav' = "stopping"
  /\ UNCHANGED <<isRunning, executionInterval, timers, acts, execVars, alertVars, apiKeys, detectVars, hookVars>>

\* a callback of setInterval(() => this.executeArbitrageLoop(), 2000)
Tick ==
  /\ nav # "exited"
  /\ timers > 0
  /\ \E a \in Activations : acts[a].pc = "idle"
  /\ acts' = Spawn(acts)
  /\ UNCHANGED <<nav, isRunning, executionInterval, timers, execVars, alertVars, apiKeys, detectVars, hookVars>>

\* executeArbitrageLoop: await findSimpleArbitrageOpportunities()
FindSimple(a) ==
  /\ nav # "exited"
  /\ acts[a].pc = "findSimple"
  /\ \/ acts' = [acts EXCEPT ![a] = [@ EXCEPT !.pc = "order", !.type = "simple", !.leg = 1]]
     \/ acts' = [acts EXCEPT ![a].pc = "findTriangular"]
  /\ UNCHANGED <<nav, isRunning, executionInterval, timers, execVars, alertVars, apiKeys, detectVars, hookVars>>

\* executeArbitrageLoop: await findTriangularArbitrageOpportunities()
FindTriangular(a) ==
  /\ nav # "exited"
  /\ acts[a].pc = "findTriangular"
  /\ \/ acts' = [acts EXCEPT ![a] = [@ EXCEPT !.pc = "order", !.type = "triangular", !.leg = 1]]
     \/ acts' = [acts EXCEPT ![a].pc = "done"]
  /\ UNCHANGED <<nav, isRunning, executionInterval, timers, execVars, alertVars, apiKeys, detectVars, hookVars>>

\* executeSimpleArbitrage / executeTriangularArbitrage: one market order
PlaceOrder(a) ==
  /\ nav # "exited"
  /\ acts[a].pc = "order"
  /\ \/ acts' = [acts EXCEPT ![a] = [@ EXCEPT !.pc = "confirm", !.attempts = 0, !.placed = @ + 1]]
     \/ acts' = [acts EXCEPT ![a].pc = "rollback"]
  /\ UNCHANGED <<nav, isRunning, executionInterval, timers, execVars, alertVars, apiKeys, detectVars, hookVars>>

ConfirmOrderOffByOne(a) ==
  /\ nav # "exited"
  /\ acts[a].pc = "confirm"
  /\ acts[a].attempts <= maxAttempts
  /\ \/ acts' = [acts EXCEPT ![a] =
                   IF @.leg < OrdersOf(@.type)
                     THEN [@ EXCEPT !.pc = "order", !.leg = @ + 1, !.attempts = 0]
                     ELSE [@ EXCEPT !.pc = "done", !.outcome = "completed", !.attempts = 0]]
     \/ acts' = [acts EXCEPT ![a].attempts = @ + 1]
  /\ UNCHANGED <<nav, isRunning, executionInterval, timers, execVars, alertVars, apiKeys, detectVars, hookVars>>

\* waitForTradeConfirmation: one fetchOrder; an order that is not closed and
\* a fetch error both use up an attempt
ConfirmOrder(a) ==
  /\ nav # "exited"
  /\ acts[a].pc = "confirm"
  /\ acts[a].attempts < maxAttempts
  /\ \/ acts' = [acts EXCEPT ![a] =
                   IF @.leg < OrdersOf(@.type)
                     THEN [@ EXCEPT !.pc = "order", !.leg = @ + 1, !.attempts = 0]
                     ELSE [@ EXCEPT !.pc = "done", !.outcome = "completed", !.attempts = 0]]
     \/ acts' = [acts EXCEPT ![a].attempts = @ + 1]
  /\ UNCHANGED <<nav, isRunning, executionInterval, timers, execVars, alertVars, apiKeys, detectVars, hookVars>>

\* waitForTradeConfirmation: maxAttempts used up, the error reaches executeArbitrage
ConfirmExhausted(a) ==
  /\ nav # "exited"
  /\ acts[a].pc = "confirm"
  /\ acts[a].attempts >= maxAttempts
  /\ acts' = [acts EXCEPT ![a].pc = "rollback"]
  /\ UNCHANGED <<nav, isRunning, executionInterval, timers, execVars, alertVars, apiKeys, detectVars, hookVars>>

\* executeArbitrage's catch: rollbackTrades = cancelAllOrders on exchanges[0];
\* comps counts the orders rollbackTrades places
\* the only call rollbackTrades makes is cancelAllOrders; it places no order
CancelAllOrders(a) ==
  /\ nav # "exited"
  /\ acts[a].pc = "rollback"
  /\ acts' = [acts EXCEPT ![a] = [@ EXCEPT !.pc = "done", !.outcome = "failed",
                                            !.cancelled = TRUE]]
  /\ UNCHANGED <<nav, isRunning, executionInterval, timers, execVars, alertVars, apiKeys, detectVars, hookVars>>

\* SIGINT / SIGTERM: ArbirootNavigator.stop up to its await of createBackup;
\* ArbitrageExecutor.stop clears the flag and the timer and awaits nothing
NavigatorStop ==
  /\ nav = "running"
  /\ isRunning' = FALSE
  /\ executionInterval' = FALSE
  /\ timers' = IF isRunning /\ executionInterval THEN timers - 1 ELSE timers
  /\ nav' = "stopping"
  /\ UNCHANGED <<acts, execVars, alertVars, apiKeys, detectVars, hookVars>>

\* ArbirootNavigator.stop: the backup is written (or fails) and process.exit runs
NavigatorExit ==
  /\ nav = "stopping"
  /\ nav' = "exited"
  /\ UNCHANGED <<isRunning, executionInterval, timers, acts, execVars, alertVars, apiKeys, detectVars, hookVars>>

\* ArbitrageExecutor.start: if (this.isRunning) { warn; return }
StartReturnsEarlyNever(running) == FALSE
StartReturnsEarly(running) == running

\* ArbitrageExecutor.start called on the running process: it returns early
\* when already running, else it runs the loop once and arms a timer
ExecutorStart ==
  /\ nav = "running"
  /\ IF StartReturnsEarly(isRunning)
       THEN UNCHANGED <<isRunning, executionInterval, timers, acts>>
       ELSE /\ \E a \in Activations : acts[a].pc = "idle"
            /\ isRunning' = TRUE
            /\ acts' = Spawn(acts)
            /\ executionInterval' = TRUE
            /\ timers' = timers + 1
  /\ UNCHANGED <<nav, execVars, alertVars, apiKeys, detectVars, hookVars>>

\* ArbitrageExecutor.stop called on the running process: it returns early
\* when not running, else it clears the timer of executionInterval
ExecutorStop ==
  /\ nav = "running"
  /\ IF ~isRunning
       THEN UNCHANGED <<isRunning, executionInterval, timers>>
       ELSE /\ isRunning' = FALSE
            /\ executionInterval' = FALSE
            /\ timers' = IF executionInterval THEN timers - 1 ELSE timers
  /\ UNCHANGED <<nav, acts, execVars, alertVars, apiKeys, detectVars, hookVars>>

NextLoop ==
  \/ NavigatorStart
  \/ ExecutorStart
  \/ ExecutorStop
  \/ NavigatorStartFails
  \/ Tick
  \/ \E a \in Activations : FindSimple(a)
  \/ \E a \in Activations : FindTriangular(a)
  \/ \E a \in Activations : PlaceOrder(a)
  \/ \E a \in Activations : ConfirmOrder(a)
  \/ \E a \in Activations : ConfirmExhausted(a)
  \/ \E a \in Activations : CancelAllOrders(a)
  \/ NavigatorStop
  \/ NavigatorExit

SpecLoop == Init /\ [][NextLoop]_vars

(***************************************************************************)
(* The alerting executor (ArbitrageExecutor with an AlertManager): one run *)
(* of executeArbitrageLoop, from the search to the final alert.            *)
(***************************************************************************)
\* findArbitrageOpportunities: every path is one of the triples of commonPairs
TrianglePath == <<"BTC/USDT", "ETH/BTC", "ETH/USDT">>

\* what axios.post does for a channel: "off" when the channel is disabled
AlertPosts(enabled) == IF enabled THEN {"ok", "error"} ELSE {"off"}

sendTelegramAlertRethrows(post) == IF post = "error" THEN "rejected" ELSE "resolved"

\* sendTelegramAlert: returns at once when disabled; the post and the
\* formatting are inside try/catch and the catch only logs
sendTelegramAlert(post) == "resolved"

\* sendDiscordAlert: the same shape
sendDiscordAlert(post) == "resolved"

\* sendAlert: logAlert, then await Promise.all of the two channels
sendAlert(telegram, discord) ==
  IF "rejected" \in {sendTelegramAlert(telegram), sendDiscordAlert(discord)}
    THEN "rejected" ELSE "resolved"

Alert(level, text, telegram, discord) ==
  [level |-> level, text |-> text, telegram |-> telegram, discord |-> discord]

\* new AlertManager(logger): the channels enabled in alertConfig
AlertManagerNew ==
  /\ run.pc = "new"
  /\ \E t \in BOOLEAN, d \in BOOLEAN :
       run' = [run EXCEPT !.pc = "find", !.telegramEnabled = t, !.discordEnabled = d]
  /\ UNCHANGED <<execVars, loopVars, detectVars, hookVars>>

\* executeArbitrageLoop: await findArbitrageOpportunities(), filter and sort;
\* with no valid opportunity (or an error, which the catch logs) the run ends
ExecuteArbitrageLoop ==
  /\ run.pc = "find"
  /\ \/ run' = [run EXCEPT !.pc = "announce"]
     \/ run' = [run EXCEPT !.pc = "done"]
  /\ UNCHANGED <<execVars, loopVars, detectVars, hookVars>>

\* await sendAlert('opportunity', ...), then executeArbitrage up to its first
\* await: validateOpportunity again, then the first createOrder is issued
SendOpportunityAlert ==
  /\ run.pc = "announce"
  /\ \E t \in AlertPosts(run.telegramEnabled), d \in AlertPosts(run.discordEnabled) :
       LET sent == [run EXCEPT !.alerts = Append(@, Alert("opportunity", "expectedProfit", t, d))]
       IN IF sendAlert(t, d) = "rejected"
            THEN run' = [sent EXCEPT !.pc = "done", !.cause = "alert"]
            ELSE \/ run' = [sent EXCEPT !.pc = "order", !.started = TRUE, !.leg = 1]
                 \/ run' = [sent EXCEPT !.pc = "rollback", !.started = TRUE,
                                         !.cause = "invalid"]
  /\ UNCHANGED <<execVars, loopVars, detectVars, hookVars>>

\* await exchange.createOrder(pair, 'market', 'buy', requiredBalance)
CreateMarketOrder ==
  /\ run.pc = "order"
  /\ \/ run' = [run EXCEPT !.pc = "confirm", !.attempts = 0, !.orders = @ + 1]
     \/ run' = [run EXCEPT !.pc = "rollback", !.cause = "order"]
  /\ UNCHANGED <<execVars, loopVars, detectVars, hookVars>>

\* waitForTradeConfirmation: one fetchOrder; closed returns, anything else
\* sleeps a second and counts an attempt; an error of fetchOrder is not caught
FetchOrder ==
  /\ run.pc = "confirm"
  /\ run.attempts < maxAttemptsAlerting
  /\ \/ run' = IF run.leg < Len(TrianglePath)
                  THEN [run EXCEPT !.pc = "order", !.leg = @ + 1, !.attempts = 0]
                  ELSE [run EXCEPT !.pc = "balance", !.attempts = 0]
     \/ run' = [run EXCEPT !.attempts = @ + 1]
     \/ run' = [run EXCEPT !.pc = "rollback", !.cause = "confirm"]
  /\ UNCHANGED <<execVars, loopVars, detectVars, hookVars>>

\* waitForTradeConfirmation: the attempts are used up
FetchOrderExhausted ==
  /\ run.pc = "confirm"
  /\ run.attempts >= maxAttemptsAlerting
  /\ run' = [run EXCEPT !.pc = "rollback", !.cause = "timeout"]
  /\ UNCHANGED <<execVars, loopVars, detectVars, hookVars>>

\* await exchange.fetchBalance(); calculateActualProfit(trades)
FetchFinalBalance ==
  /\ run.pc = "balance"
  /\ \/ run' = [run EXCEPT !.pc = "report"]
     \/ run' = [run EXCEPT !.pc = "rollback", !.cause = "balance"]
  /\ UNCHANGED <<execVars, loopVars, detectVars, hookVars>>

\* await sendAlert('info', profit, {sessionId, trades}) at the end of the try
SendSuccessAlert ==
  /\ run.pc = "report"
  /\ \E t \in AlertPosts(run.telegramEnabled), d \in AlertPosts(run.discordEnabled) :
       LET sent == [run EXCEPT !.alerts = Append(@, Alert("info", "profit", t, d))]
       IN run' = IF sendAlert(t, d) = "rejected"
                   THEN [sent EXCEPT !.pc = "rollback", !.cause = "alert"]
                   ELSE [sent EXCEPT !.pc = "done", !.outcome = "completed"]
  /\ UNCHANGED <<execVars, loopVars, detectVars, hookVars>>

\* the catch of executeArbitrage: await rollbackTrades, which cancels the open
\* orders on exchanges[0] and logs its own failure
RollbackTrades ==
  /\ run.pc = "rollback"
  /\ run' = [run EXCEPT !.pc = "reportError", !.rolledBack = TRUE]
  /\ UNCHANGED <<execVars, loopVars, detectVars, hookVars>>

SendErrorAlertTwice ==
  /\ run.pc = "reportError"
  /\ \E t \in AlertPosts(run.telegramEnabled), d \in AlertPosts(run.discordEnabled) :
       run' = [run EXCEPT !.alerts = @ \o <<Alert("error", "error.message", t, d),
                                            Alert("error", "error.message", t, d)>>,
                          !.pc = "done", !.outcome = "failed"]
  /\ UNCHANGED <<execVars, loopVars, detectVars, hookVars>>

\* the catch of executeArbitrage: await sendAlert('error', error.message); a
\* rejection would leave executeArbitrage for the catch of the loop
SendErrorAlert ==
  /\ run.pc = "reportError"
  /\ \E t \in AlertPosts(run.telegramEnabled), d \in AlertPosts(run.discordEnabled) :
       LET sent == [run EXCEPT !.alerts = Append(@, Alert("error", "error.message", t, d))]
       IN run' = IF sendAlert(t, d) = "rejected"
                   THEN [sent EXCEPT !.pc = "done", !.outcome = "failed", !.cause = "alert"]
                   ELSE [sent EXCEPT !.pc = "done", !.outcome = "failed"]
  /\ UNCHANGED <<execVars, loopVars, detectVars, hookVars>>

NextAlert ==
  \/ AlertManagerNew
  \/ ExecuteArbitrageLoop
  \/ SendOpportunityAlert
  \/ CreateMarketOrder
  \/ FetchOrder
  \/ FetchOrderExhausted
  \/ FetchFinalBalance
  \/ SendSuccessAlert
  \/ RollbackTrades
  \/ SendErrorAlert

SpecAlert == Init /\ [][NextAlert]_vars

(***************************************************************************)
(* Properties.                                                             *)
(***************************************************************************)
HasSession == SessionId \in DOMAIN sessions

\* the compensating calls issued so far undo, last leg first, the legs in `legs`
CompensatesInReverse(comps, legs) ==
  /\ Len(comps) <= Len(legs)
  /\ \A i \in 1..Len(comps) :
       /\ comps[i].of = legs[Len(legs) + 1 - i].id
       /\ comps[i].side \in {"buy", "sell"}
       /\ comps[i].side # legs[Len(legs) + 1 - i].side

\* C1: at most one arbitrage execution is in flight at any time, whatever the
\* interleaving of timer ticks and order/confirmation steps.
C1_SingleExecutionInFlight ==
  Cardinality({a \in Activations : InFlight(a)}) <= 1

LegalStatusStep ==
  \A s \in DOMAIN sessions' :
    IF s \in DOMAIN sessions
      THEN \/ sessions'[s].status = sessions[s].status
           \/ <<sessions[s].status, sessions'[s].status>> \in
                {<<"pending", "executing">>, <<"executing", "completed">>,
                 <<"executing", "failed">>}
      ELSE sessions'[s].status = "pending"

\* C2: a session is created pending; its status only moves pending -> executing
\* -> completed or failed, and a completed or failed status never changes again,
\* whatever rollbackTrades does.
C2_StatusMonotonic == [][LegalStatusStep]_vars

\* C2 witness: a failed session whose rollback has run, with a compensating
\* order that failed, and the call has ended
C2_Witness ==
  /\ HasSession /\ Session.status = "failed" /\ call.pc = "thrown"
  /\ \E i \in 1..Len(call.comps) : ~call.comps[i].ok

\* C3: when a session with N recorded legs has failed and the call has ended,
\* exactly N compensating createOrder calls were issued, in the reverse of the
\* order of the legs, each with the opposite side of its leg; while the rollback
\* runs, the calls issued so far are a prefix of that list.
C3_RollbackReverseOpposite ==
  (HasSession /\ Session.status = "failed") =>
     /\ CompensatesInReverse(call.comps, call.recorded)
     /\ call.pc = "thrown" => Len(call.comps) = Len(call.recorded)

\* C3 witness: a failed session with two recorded legs, fully rolled back
C3_Witness ==
  /\ HasSession /\ Session.status = "failed" /\ call.pc = "thrown"
  /\ Len(call.recorded) = 2 /\ Len(call.comps) = 2

\* C4: if the running realized value after leg k is below
\* profit * (1 - MAX_SLIPPAGE), no order of a later leg is placed, the session is
\* failed and rollback compensates exactly the legs 1..k.
C4_AbortOnProfitLoss ==
  LET k == Len(call.recorded)
  IN (k > 0 /\ calculateCurrentProfit(call.recorded) * 10000
                 < call.opp.profit * (10000 - MAX_SLIPPAGE)) =>
       /\ call.cause = "recheck"
       /\ Session.status = "failed"
       /\ Len(call.placed) = k
       /\ call.pc \in {"rollback", "thrown"}
       /\ call.rbArg = call.recorded
       /\ CompensatesInReverse(call.comps, call.recorded)
       /\ call.pc = "thrown" => Len(call.comps) = k

\* C4 witness: the recheck failed after the second leg and both legs were compensated
C4_Witness ==
  /\ call.cause = "recheck" /\ call.pc = "thrown"
  /\ Len(call.recorded) = 2 /\ Len(call.placed) = 2 /\ Len(call.comps) = 2

C6_CompletedOnlyIfAllClosed ==
  (HasSession /\ Session.status = "completed") =>
     /\ call.closed = 1..NLegs
     /\ Len(call.recheck) = NLegs
     /\ \A i \in 1..NLegs : call.recheck[i]
     /\ Len(Session.trades) = NLegs

\* C6 witness: a completed session of two legs
C6_Witness == HasSession /\ Session.status = "completed" /\ NLegs = 2

\* C7: when every leg is placed without error, confirmed closed and filled at the
\* limit price, the profitability recheck does not abort the session.
C7_NoAbortWithoutSlippage ==
  call.cause = "recheck" =>
     \E i \in 1..Len(call.recorded) : call.recorded[i].price # call.recorded[i].limit

\* C8: after stop() no tick is scheduled, and the process exits only when no
\* execution is in flight.
C8_GracefulShutdown ==
  /\ nav \in {"stopping", "exited"} => ~executionInterval
  /\ nav = "exited" => \A a \in Activations : ~InFlight(a)

\* C9: an opportunity rejected by validation (balance, liquidity, risk class
\* high) has no session in the sessions map.
C9_NoSessionForRejected ==
  call.cause \in {"balance", "liquidity", "risk"} => ~HasSession

\* C10: validateLiquidity accepts a leg exactly when min(bidVolume, askVolume) of
\* its order book is at least minimumRequired * 3, and after a rejection no order
\* is placed.
C10_LiquidityExactlyRatio ==
  call.liqVerdict # "none" =>
     /\ call.liqVerdict = "pass" <=>
          Min(call.lastBook.bidVolume, call.lastBook.askVolume)
            >= call.opp.minimumRequired * MIN_LIQUIDITY_RATIO
     /\ call.liqVerdict = "reject" => call.placed = <<>>

\* C11: no order is placed for an opportunity whose entry venue reported a
\* balance below the opportunity's minimum required capital.
C11_NoOrderWithoutBalance ==
  call.placed # <<>> => call.entryBalance >= call.opp.minimumRequired

\* the thresholds of the risk classes, in basis points, over the sums of n legs
ExceedsHigh(volSum, slipSum, n) == volSum > 100 * n \/ slipSum > MAX_SLIPPAGE * n
ExceedsLow(volSum, slipSum, n) == volSum > 50 * n \/ 2 * slipSum > MAX_SLIPPAGE * n
BelowLow(volSum, slipSum, n) == volSum < 50 * n /\ 2 * slipSum < MAX_SLIPPAGE * n

\* C12 as stated: the class is high when the volatility or the slippage estimate
\* exceeds its high threshold, low when both are below their low thresholds,
\* medium otherwise; and no order is placed once the class is high.
C12_RiskClassAsStated ==
  /\ call.pc = "classified" =>
        call.risk = IF ExceedsHigh(call.volSum, call.slipSum, NLegs) THEN "high"
                    ELSE IF BelowLow(call.volSum, call.slipSum, NLegs) THEN "low"
                    ELSE "medium"
  /\ call.risk = "high" => call.placed = <<>>

\* C12 amended: the class is high when the volatility or the slippage estimate
\* exceeds its high threshold, low when neither exceeds its low threshold (an
\* estimate equal to the low threshold still counts as low), medium otherwise;
\* and no order is placed once the class is high.
C12_RiskClass ==
  /\ call.pc = "classified" =>
        call.risk = IF ExceedsHigh(call.volSum, call.slipSum, NLegs) THEN "high"
                    ELSE IF ~ExceedsLow(call.volSum, call.slipSum, NLegs) THEN "low"
                    ELSE "medium"
  /\ call.risk = "high" => call.placed = <<>>

C12_Witness ==
  /\ call.risk = "high"
  /\ call.cause = "risk"
  /\ HasSession /\ Session.status = "failed"

QueryCauses == {"balanceQuery", "liquidityQuery", "riskQuery"}

\* C13: when a balance, order-book or ticker query fails during validation, no
\* order is placed and the call does not end by throwing to its caller.
C13_QueryFailureNotPropagated ==
  call.cause \in QueryCauses => (call.placed = <<>> /\ call.pc # "thrown")

FailedCompensations == {i \in 1..Len(call.comps) : ~call.comps[i].ok}

\* C14: rollback is best effort: a failed compensating order raises no error of
\* its own (the call ends with the failure that started the rollback) and every
\* leg handed to rollbackTrades gets its compensating order attempted.
C14_RollbackBestEffort ==
  /\ call.rbInvoked => call.cause \in {"place", "confirm", "timeout", "recheck"}
  /\ (call.rbInvoked /\ call.pc = "rollback") => Len(call.comps) = call.rbIdx - 1
  /\ (call.rbInvoked /\ call.pc = "thrown") => Len(call.comps) = Len(call.rbArg)

\* C14 witness: the first compensating order failed and the second was still issued
C14_Witness ==
  /\ call.rbInvoked /\ call.pc = "thrown"
  /\ Len(call.comps) = 2 /\ ~call.comps[1].ok

\* C15: the error list of a failed session holds the failure that ended the
\* execution and one entry per failed compensating order.
C15_RollbackFailuresRecorded ==
  (HasSession /\ Session.status = "failed") =>
     Len(Session.errors) = 1 + Cardinality(FailedCompensations)

\* C16: every compensating order is a market order on the venue and symbol of
\* the leg it compensates, for the amount the venue filled of that leg.
C16_CompensationMatchesLeg ==
  \A i \in 1..Len(call.comps) :
    LET j == Len(call.recorded) + 1 - i
    IN /\ j >= 1
       /\ call.comps[i].type = "market"
       /\ call.comps[i].exchange = call.placed[j].exchange
       /\ call.comps[i].symbol = call.placed[j].symbol
       /\ call.comps[i].hasAmount
       /\ call.comps[i].amount = call.placed[j].filled

WaitStep(a) == acts[a].pc = "confirm" /\ acts'[a] # acts[a]

C18_LoopCompensatesClosedLegs ==
  \A a \in Activations :
    (acts[a].outcome = "failed" /\ acts[a].leg > 1) => acts[a].comps = acts[a].leg - 1

IsTerminalAlert(alert) == alert.level \in {"info", "error"}

\* C19: an execution that has ended was reported exactly once, by an info alert
\* carrying the profit when it completed and by an error alert carrying the
\* error message when it failed; while its legs run no alert is sent (the only
\* earlier alert is the announcement of the opportunity).
C19_ReportedExactlyOnce ==
  /\ run.pc \in {"order", "confirm", "balance", "report", "rollback", "reportError"} =>
        (Len(run.alerts) = 1 /\ run.alerts[1].level = "opportunity")
  /\ (run.pc = "done" /\ run.started) =>
        LET terminal == SelectSeq(run.alerts, IsTerminalAlert)
        IN /\ Len(terminal) = 1
           /\ Len(run.alerts) = 2
           /\ run.outcome \in {"completed", "failed"}
           /\ run.outcome = "completed" =>
                 (terminal[1].level = "info" /\ terminal[1].text = "profit")
           /\ run.outcome = "failed" =>
                 (terminal[1].level = "error" /\ terminal[1].text = "error.message")

\* C19 witness: a failed execution, after two confirmed legs, that has ended
C19_Witness ==
  run.pc = "done" /\ run.started /\ run.outcome = "failed" /\ run.orders = 2

DeliveryFailed(alert) == alert.telegram = "error" \/ alert.discord = "error"

\* C20: a failed delivery of an alert never becomes a cause of the run: an
\* announced opportunity is executed, rollback runs only for a failure of the
\* engine itself, and a completed execution placed all its orders and was not
\* rolled back.
C20_AlertFailureKeepsControlFlow ==
  /\ run.cause # "alert"
  /\ (run.pc = "done" /\ run.alerts # <<>>) => run.started
  /\ run.rolledBack => run.cause \in {"invalid", "order", "confirm", "timeout", "balance"}
  /\ (run.pc = "done" /\ run.started /\ run.cause = "none") =>
        (run.outcome = "completed" /\ ~run.rolledBack /\ run.orders = Len(TrianglePath))

\* C20 witness: both alerts failed on a channel and the execution completed
\* with its three orders
C20_Witness ==
  /\ run.pc = "done" /\ run.outcome = "completed" /\ run.orders = Len(TrianglePath)
  /\ \A i \in 1..Len(run.alerts) : DeliveryFailed(run.alerts[i])

\* C21: with credentials missing for a configured venue the scan loop never
\* begins: ArbitrageExecutor.start is not reached and no scan runs.
C21_NoScanOnInvalidConfig ==
  apiKeys = "empty" =>
     /\ ~isRunning
     /\ ~executionInterval
     /\ \A a \in Activations : acts[a].pc = "idle"

IsPrefix(s, t) == Len(s) <= Len(t) /\ SubSeq(t, 1, Len(s)) = s

\* C22: session.trades is append-only: at every step the list before the step
\* is a prefix of the list after it.
C22_TradesAppendOnly ==
  [][(HasSession /\ HasSession') => IsPrefix(Session.trades, Session'.trades)]_vars

\* C23: the legs are placed in path order and one at a time: the order of leg
\* k+1 is placed only after the order of leg k was seen closed, and a leg is
\* recorded in session.trades only after its order was seen closed.
C23_LegsInPathOrder ==
  /\ \A i \in 1..Len(call.placed) : call.placed[i].leg = i
  /\ \A i \in 2..Len(call.placed) : (i - 1) \in call.closed
  /\ Len(call.recorded) <= Len(call.placed)
  /\ Len(call.placed) <= Len(call.recorded) + 1
  /\ \A j \in 1..Len(call.recorded) : j \in call.closed

\* C23 witness: two legs placed and recorded
C23_Witness == Len(call.placed) = 2 /\ Len(call.recorded) = 2

ONE == 1000
HOP_FEE == 999
SIMPLE_FEE == 998

\* a Set keeps its elements in insertion order, each once
RECURSIVE InsertionOrder(_)
InsertionOrder(s) ==
  IF s = <<>> THEN <<>>
  ELSE LET front == InsertionOrder(SubSeq(s, 1, Len(s) - 1))
           last == s[Len(s)]
       IN IF \E i \in 1..Len(front) : front[i] = last THEN front
          ELSE Append(front, last)

\* prices.forEach: the price points of the included exchanges
IncludedPrices(prices, includeExchanges) ==
  SelectSeq(prices, LAMBDA price : price.exchange \in includeExchanges)

\* the keys of pricesByExchange, in the order Object.entries lists them
ExchangeKeys(prices) ==
  InsertionOrder([i \in 1..Len(prices) |-> prices[i].exchange])
ExchangePrices(prices, exchange) ==
  SelectSeq(prices, LAMBDA price : price.exchange = exchange)

\* symbols of one exchange, and priceMap: a later set() replaces the price
SymbolsOf(exchangePrices) ==
  { exchangePrices[i].symbol : i \in 1..Len(exchangePrices) }
PriceMapOf(exchangePrices) ==
  [symbol \in SymbolsOf(exchangePrices) |->
     LET last == CHOOSE i \in 1..Len(exchangePrices) :
                   /\ exchangePrices[i].symbol = symbol
                   /\ \A j \in 1..Len(exchangePrices) :
                        exchangePrices[j].symbol = symbol => j <= i
     IN exchangePrices[last].price]
\* assets: base then quote of every price point
AssetsOf(exchangePrices) ==
  InsertionOrder([k \in 1..(2 * Len(exchangePrices)) |->
                    exchangePrices[(k + 1) \div 2].symbol[2 - (k % 2)]])

Includes(path, asset) == \E i \in 1..Len(path) : path[i] = asset

\* one hop of findArbitragePaths, before the fee: the direct pair
\* current/next divides by its price, the inverse pair next/current
\* multiplies; found is FALSE when neither symbol is quoted
HopValue(ctx, currentAsset, nextAsset, currentValue) ==
  LET directPair == <<currentAsset, nextAsset>>
      inversePair == <<nextAsset, currentAsset>>
  IN IF directPair \in ctx.symbols
     THEN [found |-> TRUE, symbol |-> directPair,
           value |-> currentValue \div ctx.priceMap[directPair]]
     ELSE IF inversePair \in ctx.symbols
     THEN [found |-> TRUE, symbol |-> inversePair,
           value |-> currentValue * ctx.priceMap[inversePair]]
     ELSE [found |-> FALSE, symbol |-> directPair, value |-> currentValue]

\* newValue *= 0.999
ApplyHopFee(value) == (value * HOP_FEE) \div ONE

\* profitPercentage >= minProfitPercentage, of both detectors
MeetsThresholdAlways(profitPercentage, minProfitPercentage) == TRUE
MeetsThreshold(profitPercentage, minProfitPercentage) ==
  profitPercentage >= minProfitPercentage

NoPaths == [opportunities |-> <<>>, hops |-> <<>>]
JoinPaths(a, b) == [opportunities |-> a.opportunities \o b.opportunities,
                    hops |-> a.hops \o b.hops]

\* findArbitragePaths: the opportunities it pushes and the hops it takes,
\* both in order; ctx holds the arguments that stay the same down the recursion
RECURSIVE findArbitragePaths(_, _, _, _)
RECURSIVE ForEachNextAsset(_, _, _, _, _)
findArbitragePaths(ctx, currentAsset, currentValue, path) ==
  IF Len(path) > ctx.maxDepth THEN NoPaths
  ELSE IF currentAsset = ctx.startAsset /\ Len(path) > 2
  THEN LET profitPercentage == currentValue - ONE
       IN IF MeetsThreshold(profitPercentage, ctx.minProfitPercentage)
          THEN [opportunities |-> << [id |-> <<"tri", ctx.exchange, path, ctx.now>>,
                                      timestamp |-> ctx.now,
                                      type |-> "triangular",
                                      profitPercentage |-> profitPercentage,
                                      path |-> path,
                                      exchanges |-> <<ctx.exchange>>] >>,
                hops |-> <<>>]
          ELSE NoPaths
  ELSE ForEachNextAsset(ctx, currentAsset, currentValue, path, 1)
ForEachNextAsset(ctx, currentAsset, currentValue, path, i) ==
  IF i > Len(ctx.assets) THEN NoPaths
  ELSE LET nextAsset == ctx.assets[i]
           hop == HopValue(ctx, currentAsset, nextAsset, currentValue)
           newValue == ApplyHopFee(hop.value)
           taken ==
             IF nextAsset # currentAsset /\ hop.found /\ ~Includes(path, nextAsset)
             THEN JoinPaths([opportunities |-> <<>>,
                             hops |-> << [from |-> currentAsset, to |-> nextAsset,
                                         symbol |-> hop.symbol,
                                         price |-> ctx.priceMap[hop.symbol],
                                         before |-> currentValue,
                                         after |-> newValue] >>],
                            findArbitragePaths(ctx, nextAsset, newValue,
                                               Append(path, nextAsset)))
             ELSE NoPaths
       IN JoinPaths(taken,
                    ForEachNextAsset(ctx, currentAsset, currentValue, path, i + 1))

\* assets.forEach(startAsset => findArbitragePaths(startAsset, ...)) of one
\* exchange
RECURSIVE ForEachStartAsset(_, _)
ForEachStartAsset(ctx, i) ==
  IF i > Len(ctx.assets) THEN NoPaths
  ELSE JoinPaths(findArbitragePaths([ctx EXCEPT !.startAsset = ctx.assets[i]],
                                    ctx.assets[i], ONE, <<ctx.assets[i]>>),
                 ForEachStartAsset(ctx, i + 1))

\* Object.entries(pricesByExchange).forEach
RECURSIVE ForEachExchange(_, _, _, _, _)
ForEachExchange(included, params, exchanges, i, now) ==
  IF i > Len(exchanges) THEN NoPaths
  ELSE LET exchangePrices == ExchangePrices(included, exchanges[i])
           ctx == [exchange |-> exchanges[i],
                   now |-> now,
                   symbols |-> SymbolsOf(exchangePrices),
                   priceMap |-> PriceMapOf(exchangePrices),
                   assets |-> AssetsOf(exchangePrices),
                   startAsset |-> "none",
                   maxDepth |-> params.maxPathLength,
                   minProfitPercentage |-> params.minProfitPercentage]
       IN JoinPaths(ForEachStartAsset(ctx, 1),
                    ForEachExchange(included, params, exchanges, i + 1, now))

\* symbolPrices.reduce over price.price: a strict comparison keeps the
\* earlier of two equal price points
RECURSIVE LowestAsk(_, _, _)
LowestAsk(symbolPrices, i, min) ==
  IF i > Len(symbolPrices) THEN min
  ELSE LowestAsk(symbolPrices, i + 1,
                 IF symbolPrices[i].price < min.price THEN symbolPrices[i] ELSE min)
RECURSIVE HighestBid(_, _, _)
HighestBid(symbolPrices, i, max) ==
  IF i > Len(symbolPrices) THEN max
  ELSE HighestBid(symbolPrices, i + 1,
                  IF symbolPrices[i].price > max.price THEN symbolPrices[i] ELSE max)

\* lowestAsk.exchange === highestBid.exchange
SameExchangeNever(lowestAsk, highestBid) == FALSE
SameExchange(lowestAsk, highestBid) == lowestAsk.exchange = highestBid.exchange

\* ((sellPrice / buyPrice) * 0.998 - 1) * 100
SimpleProfitPercentage(buyPrice, sellPrice) ==
  ((sellPrice * SIMPLE_FEE) \div buyPrice) - ONE

\* the opportunities of one symbol of pricesBySymbol
SimpleOfSymbol(included, params, symbol, now) ==
  LET symbolPrices == SelectSeq(included, LAMBDA price : price.symbol = symbol)
  IN IF Len(symbolPrices) < 2 THEN <<>>
     ELSE LET lowestAsk == LowestAsk(symbolPrices, 1, symbolPrices[1])
              highestBid == HighestBid(symbolPrices, 1, symbolPrices[1])
              profitPercentage ==
                SimpleProfitPercentage(lowestAsk.price, highestBid.price)
          IN IF SameExchange(lowestAsk, highestBid) THEN <<>>
             ELSE IF MeetsThreshold(profitPercentage, params.minProfitPercentage)
             THEN << [id |-> <<"simple", symbol, lowestAsk.exchange,
                               highestBid.exchange, now>>,
                      timestamp |-> now,
                      type |-> "simple",
                      profitPercentage |-> profitPercentage,
                      path |-> <<symbol>>,
                      exchanges |-> <<lowestAsk.exchange, highestBid.exchange>>] >>
             ELSE <<>>

RECURSIVE ForEachSymbol(_, _, _, _, _)
ForEachSymbol(included, params, symbols, i, now) ==
  IF i > Len(symbols) THEN <<>>
  ELSE SimpleOfSymbol(included, params, symbols[i], now)
         \o ForEachSymbol(included, params, symbols, i + 1, now)

findSimpleArbitrageOpportunities(prices, params, now) ==
  LET included == IncludedPrices(prices, params.includeExchanges)
      symbols == InsertionOrder([i \in 1..Len(included) |-> included[i].symbol])
  IN ForEachSymbol(included, params, symbols, 1, now)

\* opportunities.sort((a, b) => b.profitPercentage - a.profitPercentage):
\* descending, equal elements keep their order
RECURSIVE SortByProfit(_)
SortByProfit(s) ==
  IF s = <<>> THEN <<>>
  ELSE LET rest == SortByProfit(Tail(s))
           ahead == Cardinality({ k \in 1..Len(rest) :
                      rest[k].profitPercentage > Head(s).profitPercentage })
       IN SubSeq(rest, 1, ahead) \o <<Head(s)>> \o SubSeq(rest, ahead + 1, Len(rest))

\* the search of every included exchange, before the simple detector runs
TriangularSearch(prices, params, now) ==
  LET included == IncludedPrices(prices, params.includeExchanges)
  IN ForEachExchange(included, params, ExchangeKeys(included), 1, now)

\* now is the reading of Date.now() that the ids and timestamps of the run
\* carry; a run is taken to complete within one reading of the clock
findTriangularArbitrageOpportunities(prices, params, now) ==
  SortByProfit(TriangularSearch(prices, params, now).opportunities
                 \o findSimpleArbitrageOpportunities(prices, params, now))

\* one run of the detector: the list it returns and the hops it took
DetectorRun(prices, params, now) ==
  LET search == TriangularSearch(prices, params, now)
  IN [opportunities |->
        SortByProfit(search.opportunities
                       \o findSimpleArbitrageOpportunities(prices, params, now)),
      hops |-> { search.hops[i] : i \in 1..Len(search.hops) }]

\* scanForOpportunities: priceData = await fetchPrices()
FetchPrices ==
  /\ det.pc = "idle"
  /\ \E prices \in Snapshots, params \in DetectorParams :
       det' = [det EXCEPT !.pc = "fetched", !.prices = prices, !.params = params]
  /\ UNCHANGED <<execVars, loopVars, alertVars, hookVars>>

\* scanForOpportunities: ops = findTriangularArbitrageOpportunities(...)
\* when priceData.length > 0; the first scan of the bot
FindOpportunities ==
  /\ det.pc = "fetched"
  /\ Len(det.prices) > 0
  /\ LET ran == DetectorRun(det.prices, det.params, FirstTime)
     IN det' = [det EXCEPT !.pc = "detected",
                           !.opportunities = ran.opportunities,
                           !.hops = ran.hops]
  /\ UNCHANGED <<execVars, loopVars, alertVars, hookVars>>

\* the clock reading of the scan whose output the hook holds
LastScanTime ==
  IF det.opportunities = <<>> THEN FirstTime ELSE det.opportunities[1].timestamp

\* the next tick of the scan interval, when fetchPrices returns the same
\* snapshot again: the detector runs at a later reading of the clock
ScanAgain ==
  /\ det.pc = "detected"
  /\ \E now \in Times :
       /\ now > LastScanTime
       /\ LET ran == DetectorRun(det.prices, det.params, now)
          IN det' = [det EXCEPT !.opportunities = ran.opportunities,
                                !.hops = ran.hops]
  /\ UNCHANGED <<execVars, loopVars, alertVars, hookVars>>

NextDetect == FetchPrices \/ FindOpportunities \/ ScanAgain

\* the detector reads neither the gateway nor the credentials
InitDetect == Init /\ gateway = "ExchangeManager" /\ apiKeys = "set"

SpecDetect == InitDetect /\ [][NextDetect]_vars

(***************************************************************************)
(* The bot control hook (hooks/useBotControl.tsx).  The hook is a function *)
(* React calls once per render; botActive, botPaused and wallet are        *)
(* constants of that call, and every callback defined in it               *)
(* (scanForOpportunities, the setTimeout and setInterval callbacks of      *)
(* toggleBot) reads the constants of the render that created it, whatever  *)
(* the state has become when the callback runs.  A timer therefore carries *)
(* the render it was created in.  The handlers the component invokes       *)
(* (toggleBot, pauseBot, restartBot, stopBot) are those of the latest      *)
(* render.  State updates of one callback are applied together.            *)
(***************************************************************************)
\* the constants a callback created in the current render closes over
Render(h) ==
  [botActive |-> h.botActive, botPaused |-> h.botPaused, wallet |-> h.wallet]

\* if (!botActive || botPaused) return;  of the render the callback is from
ScanReturnsEarlyNever(render) == FALSE
ScanReturnsEarly(render) == ~render.botActive \/ render.botPaused

\* scanForOpportunities up to its first await: the guard, then
\* setBotStatus('scanning') and the call of fetchPrices()
scanForOpportunities(h, render) ==
  IF ScanReturnsEarly(render)
    THEN h
    ELSE [h EXCEPT !.botStatus = "scanning", !.fetches = @ + 1]

\* useEffect cleanup keyed on botInterval: when the handle changes, the
\* interval of the previous handle is cleared
ClearInterval(intervals, handle) == { i \in intervals : i.id # handle }

\* toggleBot: returns when active, else setIsActivating(true) and
\* setTimeout(..., 2000)
ToggleBot ==
  /\ hook.nextTimer <= MaxToggles
  /\ hook' = IF hook.botActive
               THEN hook
               ELSE [hook EXCEPT !.isActivating = TRUE,
                                 !.timeouts = @ \cup {[id |-> hook.nextTimer,
                                                       render |-> Render(hook)]},
                                 !.nextTimer = @ + 1]
  /\ UNCHANGED <<execVars, loopVars, alertVars, detectVars>>

\* the setTimeout callback of toggleBot: activates, calls
\* scanForOpportunities once and arms the 15 s interval
ActivationTimeout ==
  /\ hook.fetches < MaxScans
  /\ \E t \in hook.timeouts :
       LET started == [hook EXCEPT !.isActivating = FALSE, !.botActive = TRUE,
                                   !.botPaused = FALSE, !.botStatus = "scanning",
                                   !.timeouts = @ \ {t}]
           scanned == scanForOpportunities(started, t.render)
       IN  hook' = [scanned EXCEPT
                      !.intervals = ClearInterval(@, hook.botInterval) \cup {t},
                      !.botInterval = t.id]
  /\ UNCHANGED <<execVars, loopVars, alertVars, detectVars>>

\* the setInterval callback of toggleBot:
\* if (!botPaused) scanForOpportunities()
IntervalTick ==
  /\ hook.fetches < MaxScans
  /\ \E i \in hook.intervals :
       LET called == IF i.render.botPaused
                       THEN hook
                       ELSE scanForOpportunities(hook, i.render)
       IN  hook' = [called EXCEPT !.tickedWhilePaused = @ \/ hook.botPaused]
  /\ UNCHANGED <<execVars, loopVars, alertVars, detectVars>>

\* if (!botActive) return;  of pauseBot
PauseReturnsEarlyNever(active) == FALSE
PauseReturnsEarly(active) == ~active

\* pauseBot
PauseBot ==
  /\ hook' = IF PauseReturnsEarly(hook.botActive)
               THEN hook
               ELSE [hook EXCEPT !.botPaused = TRUE, !.botStatus = "paused",
                                 !.tickedWhilePaused = FALSE]
  /\ UNCHANGED <<execVars, loopVars, alertVars, detectVars>>

\* restartBot: the scanForOpportunities it calls is the one of the render
\* restartBot itself is from
RestartBot ==
  /\ hook.fetches < MaxScans
  /\ hook' = IF ~hook.botActive \/ ~hook.botPaused
               THEN hook
               ELSE scanForOpportunities(
                      [hook EXCEPT !.botPaused = FALSE, !.botStatus = "scanning",
                                   !.tickedWhilePaused = FALSE],
                      Render(hook))
  /\ UNCHANGED <<execVars, loopVars, alertVars, detectVars>>

\* stopBot: clears the interval of the handle; a pending activation
\* timeout is left armed
StopBot ==
  /\ hook' = IF ~hook.botActive
               THEN hook
               ELSE [hook EXCEPT !.intervals = ClearInterval(@, hook.botInterval),
                                 !.botInterval = 0,
                                 !.botActive = FALSE, !.botPaused = FALSE,
                                 !.botStatus = "idle",
                                 !.tickedWhilePaused = FALSE]
  /\ UNCHANGED <<execVars, loopVars, alertVars, detectVars>>

\* connectWallet: the wallet is set anew with isAuthorized false
ConnectWallet ==
  /\ hook' = [hook EXCEPT !.wallet = "connected"]
  /\ UNCHANGED <<execVars, loopVars, alertVars, detectVars>>

\* authorizeSpending: rejects without a wallet, else sets isAuthorized
AuthorizeSpending ==
  /\ hook.wallet # "absent"
  /\ hook' = [hook EXCEPT !.wallet = "authorized"]
  /\ UNCHANGED <<execVars, loopVars, alertVars, detectVars>>

\* disconnectWallet: setWallet(null)
DisconnectWallet ==
  /\ hook' = [hook EXCEPT !.wallet = "absent"]
  /\ UNCHANGED <<execVars, loopVars, alertVars, detectVars>>

NextHook ==
  \/ ToggleBot
  \/ ActivationTimeout
  \/ IntervalTick
  \/ PauseBot
  \/ RestartBot
  \/ StopBot
  \/ ConnectWallet
  \/ AuthorizeSpending
  \/ DisconnectWallet

\* the hook constructs its own ExchangeManager and reads no API key
InitHook == Init /\ gateway = "ExchangeManager" /\ apiKeys = "set"

SpecHook == InitHook /\ [][NextHook]_vars

(***************************************************************************)
(* Properties of the detector.                                             *)
(***************************************************************************)
Detected == det.pc = "detected"
TriangularOutput ==
  { i \in 1..Len(det.opportunities) : det.opportunities[i].type = "triangular" }
SimpleOutput ==
  { i \in 1..Len(det.opportunities) : det.opportunities[i].type = "simple" }

\* the conversion the design states: BASE to QUOTE multiplies by the price,
\* QUOTE to BASE divides by it, and the hop fee follows
StatedHop(value, from, symbol, price) ==
  IF from = symbol[1] THEN ApplyHopFee(value * price)
  ELSE ApplyHopFee(value \div price)

\* the symbol that links two assets in a price map, in either orientation
LinkOf(priceMap, from, to) ==
  IF <<from, to>> \in DOMAIN priceMap THEN <<from, to>> ELSE <<to, from>>
RECURSIVE StatedCycleValue(_, _, _, _)
StatedCycleValue(priceMap, cycle, i, value) ==
  IF i >= Len(cycle) THEN value
  ELSE LET symbol == LinkOf(priceMap, cycle[i], cycle[i + 1])
       IN StatedCycleValue(priceMap, cycle, i + 1,
            StatedHop(value, cycle[i], symbol, priceMap[symbol]))

CycleAssets == {"USD", "BTC", "ETH"}
Cycles == { <<a, b, c, a>> : a \in CycleAssets, b \in CycleAssets, c \in CycleAssets }
            \cap { cycle \in Seq(CycleAssets) :
                     Len(cycle) = 4 /\ Cardinality({cycle[1], cycle[2], cycle[3]}) = 3 }

\* a snapshot of one included venue whose symbols link three assets in a
\* cycle that meets the minimum profit percentage
ProfitableTriangleSnapshot ==
  /\ Len(det.prices) > 0
  /\ \A i \in 1..Len(det.prices) : det.prices[i].exchange = det.prices[1].exchange
  /\ det.prices[1].exchange \in det.params.includeExchanges
  /\ SymbolsOf(det.prices) = Pairs
  /\ \E cycle \in Cycles :
       StatedCycleValue(PriceMapOf(det.prices), cycle, 1, ONE) - ONE
         >= det.params.minProfitPercentage

\* C25: after a scan with maxPathLength = 3 of a single-venue snapshot
\* whose three symbols form a cycle that meets the minimum profit
\* percentage, the output holds a triangular opportunity whose path starts
\* at an asset, visits the two others and returns to the start.
C25_TriangleEmitted ==
  (Detected /\ det.params.maxPathLength = 3 /\ ProfitableTriangleSnapshot) =>
     \E i \in TriangularOutput : det.opportunities[i].path \in Cycles

\* C27: every hop the triangular search takes over a symbol BASE/QUOTE
\* with price P multiplies the running value by P from BASE to QUOTE and
\* divides it by P from QUOTE to BASE, and then applies the hop fee.
C27_HopFollowsStatedConversion ==
  \A hop \in det.hops :
     hop.after = StatedHop(hop.before, hop.from, hop.symbol, hop.price)

\* C28: no opportunity of the returned list, simple or triangular, has a
\* profit percentage below params.minProfitPercentage.
C28_NoOpportunityBelowMinimum ==
  \A i \in 1..Len(det.opportunities) :
     det.opportunities[i].profitPercentage >= det.params.minProfitPercentage
C28_Witness ==
  /\ Detected
  /\ Len(det.opportunities) > 0

\* the included price points of one symbol, in snapshot order
QuotesOf(symbol) ==
  SelectSeq(IncludedPrices(det.prices, det.params.includeExchanges),
            LAMBDA price : price.symbol = symbol)
SimpleFor(symbol) ==
  { i \in SimpleOutput : det.opportunities[i].path = <<symbol>> }

\* C29: every simple opportunity of the output names two distinct venues,
\* also for snapshots with equal prices or with several price points of
\* one venue for a symbol.
C29_SimpleVenuesDistinct ==
  \A i \in SimpleOutput :
     det.opportunities[i].exchanges[1] # det.opportunities[i].exchanges[2]
C29_Witness ==
  /\ Detected
  /\ \E symbol \in Pairs :
       /\ SimpleFor(symbol) # {}
       /\ \E j, k \in 1..Len(QuotesOf(symbol)) :
            /\ j # k
            /\ QuotesOf(symbol)[j].exchange = QuotesOf(symbol)[k].exchange
            /\ QuotesOf(symbol)[j].price = QuotesOf(symbol)[k].price

VenuesOf(symbol) ==
  { QuotesOf(symbol)[i].exchange : i \in 1..Len(QuotesOf(symbol)) }
LowestVenues(symbol) ==
  { QuotesOf(symbol)[i].exchange : i \in { i \in 1..Len(QuotesOf(symbol)) :
      \A j \in 1..Len(QuotesOf(symbol)) :
         QuotesOf(symbol)[i].price <= QuotesOf(symbol)[j].price } }
HighestVenues(symbol) ==
  { QuotesOf(symbol)[i].exchange : i \in { i \in 1..Len(QuotesOf(symbol)) :
      \A j \in 1..Len(QuotesOf(symbol)) :
         QuotesOf(symbol)[i].price >= QuotesOf(symbol)[j].price } }
\* the fee-adjusted profit percentage of buying at the lowest price of a
\* symbol and selling at its highest
BestSimplePercentage(symbol) ==
  LET q == QuotesOf(symbol)
      lowest == CHOOSE i \in 1..Len(q) : \A j \in 1..Len(q) : q[i].price <= q[j].price
      highest == CHOOSE i \in 1..Len(q) : \A j \in 1..Len(q) : q[i].price >= q[j].price
  IN SimpleProfitPercentage(q[lowest].price, q[highest].price)

C31_DetectionDeterministic ==
  [][(Detected /\ Detected' /\ det'.prices = det.prices /\ det'.params = det.params)
       => det'.opportunities = det.opportunities]_vars

\* the lexicographic order of the id strings this model can produce:
\* "simple-..." sorts before "tri-...", then the components in turn, with
\* BTC/USD < ETH/BTC < ETH/USD and binance < kucoin
PairRank(pair) ==
  IF pair = <<"BTC", "USD">> THEN 1 ELSE IF pair = <<"ETH", "BTC">> THEN 2 ELSE 3
VenueRank(venue) == IF venue = "binance" THEN 1 ELSE 2
IdKey(id) ==
  IF id[1] = "simple"
  THEN <<1, PairRank(id[2]), VenueRank(id[3]), VenueRank(id[4]), id[5]>>
  ELSE <<2, VenueRank(id[2]), 0, 0, id[4]>>
IdBefore(a, b) ==
  \E k \in 1..5 :
     /\ IdKey(a)[k] < IdKey(b)[k]
     /\ \A j \in 1..(k - 1) : IdKey(a)[j] = IdKey(b)[j]

\* the stated ranking of two opportunities; the detector sets no minimum
\* required capital, so two of its opportunities never differ in it
RankedBefore(a, b) ==
  \/ a.profitPercentage > b.profitPercentage
  \/ /\ a.profitPercentage = b.profitPercentage
     /\ IdBefore(a.id, b.id)

\* C32: the returned list is in descending order of profit percentage,
\* and opportunities of equal profit percentage (and equal minimum required
\* capital) are in lexicographic order of their ids.
C32_RankedWithTieBreak ==
  \A i \in 1..Len(det.opportunities), j \in 1..Len(det.opportunities) :
     i < j => RankedBefore(det.opportunities[i], det.opportunities[j])

(***************************************************************************)
(* Orders a failed session leaves behind.                                  *)
(***************************************************************************)
\* leg i was confirmed closed, recorded, and rollback issued its
\* compensating order (rollback runs over the recorded legs in reverse)
ClosedAndCompensated(i) ==
  /\ call.placed[i].leg \in call.closed
  /\ i <= Len(call.recorded)
  /\ Len(call.recorded) + 1 - i <= Len(call.comps)
\* the venue reported the order of leg i as canceled or expired
CancelledOnVenue(i) ==
  /\ i = Len(call.placed)
  /\ call.cause = "confirm"
  /\ Session.errors # <<>>
  /\ Session.errors[Len(Session.errors)] = "Ordem nao foi completada"

\* C33: when the call has ended with the session failed, every order the
\* session placed was confirmed closed and then compensated, or is
\* cancelled; the order of the leg whose confirmation timed out or errored
\* included.
C33_NoOrderLeftOpen ==
  (call.pc = "thrown" /\ HasSession /\ Session.status = "failed") =>
     \A i \in 1..Len(call.placed) : ClosedAndCompensated(i) \/ CancelledOnVenue(i)

\* C34: through every sequence of start() and stop() calls at most one
\* interval timer is armed, a timer is armed only while isRunning is true,
\* and a step that finds the executor running and leaves it running neither
\* arms nor clears a timer.
C34_OneTimerWhileRunning ==
  [][ /\ timers' <= 1
      /\ timers' > 0 => isRunning'
      /\ (isRunning /\ isRunning') =>
           (timers' = timers /\ executionInterval' = executionInterval) ]_vars
\* stop() cleared the timer while a scan was still in progress
C34_Witness ==
  /\ nav = "running"
  /\ ~isRunning
  /\ timers = 0
  /\ \E a \in Activations : acts[a].pc # "idle"

\* No call of scanForOpportunities gets past its guard: the callbacks of
\* toggleBot are from a render with botActive false, the call of restartBot
\* is from a render with botPaused true.  fetchPrices, and with it
\* executeArbitrageOpportunity and its createOrder calls, is never reached.
NoScanPassesGuard == hook.fetches = 0

\* C36: from pauseBot() until restartBot() no step of the hook calls
\* fetchPrices, whatever interval callbacks run in between.
C36_NoScanWhilePaused ==
  [][(hook.botPaused /\ hook'.botPaused) => hook'.fetches = hook.fetches]_vars
\* the bot is paused and an interval callback has run during the pause
C36_Witness ==
  /\ hook.botPaused /\ hook.botStatus = "paused"
  /\ hook.tickedWhilePaused

\* C37: whenever botActive is false, botStatus is 'idle'.
C37_IdleWhenInactive == ~hook.botActive => hook.botStatus = "idle"
\* the bot was activated and then stopped
C37_Witness ==
  /\ ~hook.botActive /\ ~hook.isActivating
  /\ hook.nextTimer > 1 /\ hook.timeouts = {}

====
